---------------------------- MODULE Spec2Model ----------------------------
(***************************************************************************)
(* A model of the hex-grid core of rust-harmony: the grid and its A*       *)
(* search (src/src/grid.rs), the position metric (src/src/lib.rs), the     *)
(* chunked world map and the area generator (src/src/map.rs) and the rule  *)
(* engine (src/src/template.rs).                                           *)
(***************************************************************************)
EXTENDS Integers, Sequences, FiniteSets, TLC

VARIABLES
    grid,            \* HexGrid of the path-finding scenario: [cells, size]
    pc,              \* "idle" | "searching" | "returned" | "applied" | "panicked"
    search,          \* locals of the running find_path call
    result,          \* outcome of the last find_path call on the current grid
    templates,       \* TemplateEngine.templates: name -> Template
    applied,         \* the last apply_template call: arguments, grid before, outcome
    worlds,          \* the WorldMap instances: [chunks, chunk_size, rng]
    world_log,       \* per WorldMap: the with_seed arguments, the calls made, the last chunk returned
    gens,            \* the MapGenerator instances: [templates, rng]
    gen_log,         \* per MapGenerator: the seed, the calls made, what each call returned
    structure,       \* the Structure under placement: [template, base_position, occupied_positions]
    placed,          \* the last can_place_at / apply_to_grid call: grid before, outcome
    combat,          \* the Combat: [participants, current_turn]
    turn_log,        \* the last Combat call: the combat before it, what it returned, recent returns
    measured         \* two positions and the distances computed between them so far

path_vars == <<search, result>>
rule_vars == <<templates, applied>>
grid_vars == <<grid, pc, search, result, templates, applied>>
world_vars == <<worlds, world_log>>
gen_vars == <<gens, gen_log>>
struct_vars == <<structure, placed>>
combat_vars == <<combat, turn_log>>
vars == <<grid, pc, search, result, templates, applied, worlds, world_log, gens, gen_log,
          structure, placed, combat, turn_log, measured>>

(***************************************************************************)
(* Bounds of the model.                                                    *)
(***************************************************************************)
MaxCells == 4
MaxRules == 2
MaxSeed == 2
MaxCalls == 2
MaxGenCalls == 1
MaxParticipants == 3
MaxCoord == 2
RngModulus == 16
Hexes == {<<0, 0>>, <<1, 0>>}
Elevations == {-1, 0}

(***************************************************************************)
(* 32-bit signed integers.                                                 *)
(***************************************************************************)
I32_MAX == 2147483647
I32_MIN == -I32_MAX - 1

\* one i32 addition: the two's-complement sum and whether it left the i32 range
add_i32(a, b) ==
    IF b > 0 /\ a > I32_MAX - b
    THEN [value |-> ((a - I32_MAX) + (b - I32_MAX)) - 2, overflow |-> TRUE]
    ELSE IF b < 0 /\ a < I32_MIN - b
    THEN [value |-> (a - I32_MIN) + (b - I32_MIN), overflow |-> TRUE]
    ELSE [value |-> a + b, overflow |-> FALSE]

\* one i32 negation: -x, which leaves the i32 range for i32::MIN alone
neg_i32(x) ==
    IF x = I32_MIN THEN [value |-> I32_MIN, overflow |-> TRUE]
    ELSE [value |-> -x, overflow |-> FALSE]

\* An i32 operation that leaves the range panics in a build with overflow checks
\* (the debug profile) and wraps in a build without them (the release profile):
\* either outcome is possible where an operation overflowed, neither where it did not.
overflow_panics(overflowed) == overflowed

overflow_wraps(overflowed) == TRUE

Abs(x) == IF x < 0 THEN -x ELSE x

Max(a, b) == IF a >= b THEN a ELSE b

(***************************************************************************)
(* lib.rs: HexPosition.                                                    *)
(***************************************************************************)
HexPosition(q, r, z) == [q |-> q, r |-> r, z |-> z]

new_2d(q, r) == HexPosition(q, r, 0)

cube_coords(p) == <<p.q, -p.q - p.r, p.r>>

\* distance with the height difference taken without its `.abs()`
distance_signed_height(a, b) ==
    LET c1 == cube_coords(a)
        c2 == cube_coords(b)
        planar_distance ==
            (Abs(c1[1] - c2[1]) + Abs(c1[2] - c2[2]) + Abs(c1[3] - c2[3])) \div 2
    IN  planar_distance + (a.z - b.z)

\* distance without the `/ 2` of the planar part
distance_undivided(a, b) ==
    LET c1 == cube_coords(a)
        c2 == cube_coords(b)
    IN  (Abs(c1[1] - c2[1]) + Abs(c1[2] - c2[2]) + Abs(c1[3] - c2[3])) + Abs(a.z - b.z)

distance(a, b) ==
    LET c1 == cube_coords(a)
        c2 == cube_coords(b)
        planar_distance ==
            (Abs(c1[1] - c2[1]) + Abs(c1[2] - c2[2]) + Abs(c1[3] - c2[3])) \div 2
        height_difference == Abs(a.z - b.z)
    IN  planar_distance + height_difference

(***************************************************************************)
(* grid.rs: terrain, cells, the grid.                                      *)
(***************************************************************************)
TerrainType == {"Plain", "Rough", "Water", "Wall", "Sand", "Snow", "Swamp", "Lava"}

base_cost(terrain) ==
    CASE terrain = "Plain" -> 1
      [] terrain = "Rough" -> 2
      [] terrain = "Water" -> 3
      [] terrain = "Wall"  -> I32_MAX
      [] terrain = "Sand"  -> 2
      [] terrain = "Snow"  -> 2
      [] terrain = "Swamp" -> 3
      [] terrain = "Lava"  -> I32_MAX

HexGrid_new == [cells |-> << >>, size |-> <<0, 0>>]

has_cell(g, position) == position \in DOMAIN g.cells

get_cell(g, position) == g.cells[position]

\* is_in_bounds with the default elevation window applied to every stored cell,
\* whatever its terrain
is_in_bounds_default_window(g, position) ==
    LET in_grid == position.q >= 0 /\ position.q < g.size[1]
                   /\ position.r >= 0 /\ position.r < g.size[2]
    IN  IF ~in_grid THEN FALSE
        ELSE IF has_cell(g, position)
             THEN get_cell(g, position).elevation >= -10
                  /\ get_cell(g, position).elevation <= 15
             ELSE position.z >= -10 /\ position.z <= 15

is_in_bounds(g, position) ==
    LET in_grid == position.q >= 0 /\ position.q < g.size[1]
                   /\ position.r >= 0 /\ position.r < g.size[2]
    IN  IF ~in_grid THEN FALSE
        ELSE IF has_cell(g, position)
             THEN LET cell == get_cell(g, position)
                  IN  CASE cell.terrain = "Water" -> cell.elevation <= 0
                        [] cell.terrain = "Snow"  -> cell.elevation >= 5
                        [] cell.terrain = "Lava"  -> cell.elevation <= 2
                        [] OTHER -> cell.elevation >= -10 /\ cell.elevation <= 15
             ELSE position.z >= -10 /\ position.z <= 15

directions == << <<1, 0>>, <<1, -1>>, <<0, -1>>, <<-1, 0>>, <<-1, 1>>, <<0, 1>> >>

neighbor_candidates(position) ==
    [i \in 1..6 |-> HexPosition(position.q + directions[i][1],
                                position.r + directions[i][2],
                                position.z)]
    \o << HexPosition(position.q, position.r, position.z + 1),
          HexPosition(position.q, position.r, position.z - 1) >>

get_neighbors(g, position) ==
    LET InBounds(n) == is_in_bounds(g, n)
    IN  SelectSeq(neighbor_candidates(position), InBounds)

\* neighbor_cells looking for a cell on an adjacent hex at any level, whatever
\* the z of its key
neighbor_cells_any_level(g, position) ==
    LET near == {k \in DOMAIN g.cells :
                    \E i \in 1..6 : /\ k.q = position.q + directions[i][1]
                                    /\ k.r = position.r + directions[i][2]}
    IN  IF near = {} THEN << >> ELSE << CHOOSE k \in near : TRUE >>

\* add_cell's `filter_map(get_cell).next()`: the cells of the neighbors that hold one
neighbor_cells(g, position) ==
    LET Holds(n) == has_cell(g, n)
    IN  SelectSeq(get_neighbors(g, position), Holds)

\* the movement_cost add_cell computes, and whether its addition overflowed
movement_cost_sum(g, position, terrain, elevation) ==
    LET found == neighbor_cells(g, position)
    IN  IF found # << >>
        THEN LET elevation_diff == Abs(elevation - get_cell(g, found[1]).elevation)
             IN  IF elevation_diff > 1
                 THEN add_i32(base_cost(terrain), elevation_diff * 2)
                 ELSE add_i32(base_cost(terrain), 0)
        ELSE add_i32(base_cost(terrain), 0)

add_cell_overflows(g, position, terrain, elevation) ==
    LET p == [position EXCEPT !.z = elevation]
    IN  movement_cost_sum(g, p, terrain, elevation).overflow

\* add_cell without `position.z = elevation`: the cell is stored under the
\* position as it was passed
add_cell_keeping_z(g, position, terrain, elevation) ==
    LET cell == [position |-> position,
                 terrain |-> terrain,
                 movement_cost |-> movement_cost_sum(g, position, terrain, elevation).value,
                 elevation |-> elevation]
        others == DOMAIN g.cells \ {position}
    IN  [cells |-> [k \in others \cup {position} |->
                       IF k = position THEN cell ELSE g.cells[k]],
         size |-> <<Max(g.size[1], position.q + 1), Max(g.size[2], position.r + 1)>>]

add_cell(g, position, terrain, elevation) ==
    LET p == [position EXCEPT !.z = elevation]
        cell == [position |-> p,
                 terrain |-> terrain,
                 movement_cost |-> movement_cost_sum(g, p, terrain, elevation).value,
                 elevation |-> elevation]
        others == DOMAIN g.cells \ {p}
    IN  [cells |-> [k \in others \cup {p} |-> IF k = p THEN cell ELSE g.cells[k]],
         size |-> <<Max(g.size[1], p.q + 1), Max(g.size[2], p.r + 1)>>]

(***************************************************************************)
(* grid.rs: find_path (A* search) and its helpers.                         *)
(***************************************************************************)
elevation_cost(g, from, to) ==
    IF ~has_cell(g, from) THEN I32_MAX
    ELSE IF ~has_cell(g, to) THEN I32_MAX
    ELSE LET from_cell == get_cell(g, from)
             to_cell == get_cell(g, to)
             elevation_diff == Abs(to_cell.elevation - from_cell.elevation)
             base == IF elevation_diff <= 1 THEN elevation_diff ELSE elevation_diff * 2
             ft == from_cell.terrain
             tt == to_cell.terrain
         IN  CASE ft = "Water" \/ tt = "Water" -> base * 2
               [] ft = "Snow" \/ tt = "Snow"   -> base * 2
               [] ft = "Rough" \/ tt = "Rough" -> (base * 3) \div 2
               [] ft = "Wall" \/ tt = "Wall"   -> I32_MAX
               [] ft = "Lava" \/ tt = "Lava"   -> I32_MAX
               [] OTHER -> base

\* reconstruct_path without its final `path.reverse()`
RECURSIVE reconstruct_path_unreversed(_, _)
reconstruct_path_unreversed(came_from, current) ==
    IF current \in DOMAIN came_from
    THEN <<current>> \o reconstruct_path_unreversed(came_from, came_from[current])
    ELSE <<current>>

RECURSIVE reconstruct_path(_, _)
reconstruct_path(came_from, current) ==
    IF current \in DOMAIN came_from
    THEN Append(reconstruct_path(came_from, came_from[current]), current)
    ELSE <<current>>

\* skips_neighbor without the `movement_cost == i32::MAX` test
skips_neighbor_any_cost(g, closed_set, neighbor) ==
    \/ neighbor \in closed_set
    \/ ~has_cell(g, neighbor)

\* whether find_path skips this neighbor of the node it expands
skips_neighbor(g, closed_set, neighbor) ==
    \/ neighbor \in closed_set
    \/ ~has_cell(g, neighbor)
    \/ get_cell(g, neighbor).movement_cost = I32_MAX

\* improves without the comparison of costs: every neighbor that is not
\* skipped is recorded and pushed
improves_always(g_score, neighbor, tentative_g_score) == TRUE

\* the relaxation test of find_path
improves(g_score, neighbor, tentative_g_score) ==
    neighbor \notin DOMAIN g_score \/ tentative_g_score < g_score[neighbor]

\* the body of find_path's `for neighbor in get_neighbors(current)` loop, run over
\* the neighbors in order; s holds open_set, came_from, g_score and whether an
\* addition overflowed
RECURSIVE expand(_, _, _, _, _)
expand(g, goal, current, neighbors, s) ==
    IF neighbors = << >> THEN s
    ELSE
      LET neighbor == Head(neighbors)
          rest == Tail(neighbors)
      IN  IF skips_neighbor(g, s.closed_set, neighbor)
          THEN expand(g, goal, current, rest, s)
          ELSE
            LET a1 == add_i32(s.g_score[current], get_cell(g, neighbor).movement_cost)
                a2 == add_i32(a1.value, elevation_cost(g, current, neighbor))
                tentative_g_score == a2.value
            IN  IF improves(s.g_score, neighbor, tentative_g_score)
                THEN LET h_score == distance(neighbor, goal)
                         a3 == add_i32(tentative_g_score, h_score)
                         node == [position |-> neighbor,
                                  cost |-> tentative_g_score,
                                  priority |-> a3.value]
                         keys == DOMAIN s.g_score \cup {neighbor}
                         froms == DOMAIN s.came_from \cup {neighbor}
                     IN  expand(g, goal, current, rest,
                           [s EXCEPT
                              !.came_from = [k \in froms |->
                                  IF k = neighbor THEN current ELSE s.came_from[k]],
                              !.g_score = [k \in keys |->
                                  IF k = neighbor THEN tentative_g_score ELSE s.g_score[k]],
                              !.open_set = @ \cup {node},
                              !.overflowed = @ \/ a1.overflow \/ a2.overflow \/ a3.overflow])
                ELSE expand(g, goal, current, rest,
                           [s EXCEPT !.overflowed = @ \/ a1.overflow \/ a2.overflow])

(***************************************************************************)
(* template.rs: the rule engine.                                           *)
(***************************************************************************)
Rule(name, conditions, actions, priority) ==
    [name |-> name, conditions |-> conditions, actions |-> actions, priority |-> priority]

\* condition_holds with the combinators Not, And and Or evaluated on their
\* operands
RECURSIVE condition_holds_combinators(_, _, _)
condition_holds_combinators(condition, g, position) ==
    CASE condition.type = "TerrainType" ->
            IF has_cell(g, position)
            THEN get_cell(g, position).terrain = condition.terrain
            ELSE FALSE
      [] condition.type = "ElevationRange" ->
            IF has_cell(g, position)
            THEN get_cell(g, position).elevation >= condition.min
                 /\ get_cell(g, position).elevation <= condition.max
            ELSE FALSE
      [] condition.type = "Not" ->
            ~condition_holds_combinators(condition.condition, g, position)
      [] condition.type = "And" ->
            \A i \in 1..Len(condition.conditions) :
                condition_holds_combinators(condition.conditions[i], g, position)
      [] condition.type = "Or" ->
            \E i \in 1..Len(condition.conditions) :
                condition_holds_combinators(condition.conditions[i], g, position)
      [] OTHER -> FALSE

\* one element of evaluate_conditions' `all`
condition_holds(condition, g, position) ==
    CASE condition.type = "TerrainType" ->
            IF has_cell(g, position)
            THEN get_cell(g, position).terrain = condition.terrain
            ELSE FALSE
      [] condition.type = "ElevationRange" ->
            IF has_cell(g, position)
            THEN get_cell(g, position).elevation >= condition.min
                 /\ get_cell(g, position).elevation <= condition.max
            ELSE FALSE
      [] OTHER -> FALSE

evaluate_conditions(conditions, g, position) ==
    \A i \in 1..Len(conditions) : condition_holds(conditions[i], g, position)

\* apply_actions' call of add_cell; s holds the grid, whether an add_cell overflowed
\* and the grid as it was when the first one did
set_cell(s, position, terrain, elevation) ==
    LET now == add_cell_overflows(s.grid, position, terrain, elevation)
    IN  [grid |-> add_cell(s.grid, position, terrain, elevation),
         overflowed |-> s.overflowed \/ now,
         panic_grid |-> IF s.overflowed THEN s.panic_grid ELSE s.grid]

\* apply_action with SetTerrain writing elevation 0 instead of the cell's own
apply_action_flat(action, s, position) ==
    CASE action.type = "SetTerrain" ->
            IF has_cell(s.grid, position)
            THEN set_cell(s, position, action.terrain, 0)
            ELSE s
      [] action.type = "SetElevation" ->
            IF has_cell(s.grid, position)
            THEN set_cell(s, position, get_cell(s.grid, position).terrain, action.elevation)
            ELSE s
      [] OTHER -> s

\* apply_action without the `if let Some(cell)` tests: a missing cell counts
\* as Plain at the position's own z
apply_action_unguarded(action, s, position) ==
    CASE action.type = "SetTerrain" ->
            set_cell(s, position, action.terrain,
                     IF has_cell(s.grid, position)
                     THEN get_cell(s.grid, position).elevation ELSE position.z)
      [] action.type = "SetElevation" ->
            set_cell(s, position,
                     IF has_cell(s.grid, position)
                     THEN get_cell(s.grid, position).terrain ELSE "Plain",
                     action.elevation)
      [] OTHER -> s

\* one iteration of apply_actions' loop
apply_action(action, s, position) ==
    CASE action.type = "SetTerrain" ->
            IF has_cell(s.grid, position)
            THEN set_cell(s, position, action.terrain, get_cell(s.grid, position).elevation)
            ELSE s
      [] action.type = "SetElevation" ->
            IF has_cell(s.grid, position)
            THEN set_cell(s, position, get_cell(s.grid, position).terrain, action.elevation)
            ELSE s
      [] OTHER -> s

RECURSIVE apply_actions(_, _, _)
apply_actions(actions, s, position) ==
    IF actions = << >> THEN s
    ELSE apply_actions(Tail(actions), apply_action(Head(actions), s, position), position)

\* the key of `rules.sort_by_key(|r| -r.priority)`
sort_key(rule) == neg_i32(rule.priority)

\* the sort calls the key function once two rules are compared
sort_overflows(rules) ==
    Len(rules) >= 2 /\ \E i \in 1..Len(rules) : sort_key(rules[i]).overflow

\* the document indices of the rules in the order the stable sort leaves them
sorted_rules(rules) ==
    LET n == Len(rules)
        key(i) == sort_key(rules[i]).value
        rank(i) == 1 + Cardinality({j \in 1..n :
                        key(j) < key(i) \/ (key(j) = key(i) /\ j < i)})
    IN  [k \in 1..n |-> CHOOSE i \in 1..n : rank(i) = k]

\* apply_template: [returned, rule, grid, overflowed, panic_grid], returned being
\* the bool as "true" or "false" and rule the document index of the rule applied
\* (0: none)
apply_template(tmpls, name, g, position) ==
    IF name \in DOMAIN tmpls
    THEN LET rules == tmpls[name].rules
             order == sorted_rules(rules)
             matching == {k \in 1..Len(order) :
                            evaluate_conditions(rules[order[k]].conditions, g, position)}
         IN  IF matching = {}
             THEN [returned |-> "false", rule |-> 0, grid |-> g,
                   overflowed |-> sort_overflows(rules), panic_grid |-> g]
             ELSE LET first == CHOOSE k \in matching : \A m \in matching : k <= m
                      done == apply_actions(rules[order[first]].actions,
                                  [grid |-> g, overflowed |-> sort_overflows(rules),
                                   panic_grid |-> g], position)
                  IN  [returned |-> "true", rule |-> order[first], grid |-> done.grid,
                       overflowed |-> done.overflowed, panic_grid |-> done.panic_grid]
    ELSE [returned |-> "false", rule |-> 0, grid |-> g, overflowed |-> FALSE, panic_grid |-> g]

NoApplied == [name |-> "", position |-> HexPosition(0, 0, 0), before |-> HexGrid_new,
              returned |-> "unset", rule |-> 0]

(***************************************************************************)
(* map.rs: the seeded generator.  rand's StdRng is modelled as a linear    *)
(* congruential generator over 0..RngModulus-1: every draw is a function   *)
(* of the generator state and advances it by one step.                     *)
(***************************************************************************)
\* the states a generator seeded with rand::random() can start in
seed_from_entropy(seed) == 0..(RngModulus - 1)

\* the states StdRng::seed_from_u64(seed) can start in: one, fixed by the seed
seed_from_u64(seed) == {(seed * 7 + 1) % RngModulus}

next_rng(rng) == (rng * 5 + 3) % RngModulus

\* rng.gen_range(low..high)
gen_range(rng, low, high) ==
    [value |-> low + (next_rng(rng) % (high - low)), rng |-> next_rng(rng)]

\* rng.gen_bool(percent / 100)
gen_bool(rng, percent) ==
    [value |-> next_rng(rng) * 100 < percent * RngModulus, rng |-> next_rng(rng)]

\* rng.gen::<f32>(): the value is numerator / RngModulus, in [0, 1)
gen_f32(rng) == [numerator |-> next_rng(rng), rng |-> next_rng(rng)]

(***************************************************************************)
(* map.rs: WorldMap.                                                       *)
(***************************************************************************)
BiomeType == {"Forest", "Mountain", "Plains", "Desert", "Ocean", "Tundra"}

ChunkPosition(x, y) == [x |-> x, y |-> y]

WorldMap_with_seed(chunk_size, rng) ==
    [chunks |-> << >>, chunk_size |-> chunk_size, rng |-> rng]

determine_biome(rng) ==
    LET d == gen_range(rng, 0, 6)
    IN  [biome |-> CASE d.value = 0 -> "Forest"
                     [] d.value = 1 -> "Mountain"
                     [] d.value = 2 -> "Plains"
                     [] d.value = 3 -> "Desert"
                     [] d.value = 4 -> "Ocean"
                     [] OTHER -> "Tundra",
         rng |-> d.rng]

\* `if rng.gen_bool(p) { a } else { b }`
pick_terrain(rng, percent, a, b) ==
    LET d == gen_bool(rng, percent)
    IN  [terrain |-> IF d.value THEN a ELSE b, rng |-> d.rng]

get_terrain_for_biome(rng, biome) ==
    CASE biome = "Forest"   -> pick_terrain(rng, 70, "Plain", "Rough")
      [] biome = "Mountain" -> pick_terrain(rng, 80, "Rough", "Wall")
      [] biome = "Plains"   -> [terrain |-> "Plain", rng |-> rng]
      [] biome = "Desert"   -> pick_terrain(rng, 90, "Plain", "Rough")
      [] biome = "Ocean"    -> [terrain |-> "Water", rng |-> rng]
      [] biome = "Tundra"   -> pick_terrain(rng, 60, "Plain", "Rough")

\* elevation_for_biome with inclusive ranges (`5..=15` for `5..15`)
elevation_for_biome_inclusive(rng, biome) ==
    CASE biome = "Mountain" -> gen_range(rng, 5, 16)
      [] biome = "Plains"   -> gen_range(rng, 0, 4)
      [] biome = "Forest"   -> gen_range(rng, 1, 6)
      [] biome = "Desert"   -> gen_range(rng, 0, 3)
      [] biome = "Ocean"    -> [value |-> -1, rng |-> rng]
      [] biome = "Tundra"   -> gen_range(rng, 2, 8)

\* the `let elevation = match &biome` of generate_chunk
elevation_for_biome(rng, biome) ==
    CASE biome = "Mountain" -> gen_range(rng, 5, 15)
      [] biome = "Plains"   -> gen_range(rng, 0, 3)
      [] biome = "Forest"   -> gen_range(rng, 1, 5)
      [] biome = "Desert"   -> gen_range(rng, 0, 2)
      [] biome = "Ocean"    -> [value |-> -1, rng |-> rng]
      [] biome = "Tundra"   -> gen_range(rng, 2, 7)

\* `if gen_bool(p1) { Some(a) } else if gen_bool(p2) { Some(b) } else { None }`
pick_structure(rng, p1, a, p2, b) ==
    LET d1 == gen_bool(rng, p1)
        d2 == gen_bool(d1.rng, p2)
    IN  IF d1.value THEN [structure |-> a, rng |-> d1.rng]
        ELSE IF d2.value THEN [structure |-> b, rng |-> d2.rng]
        ELSE [structure |-> "None", rng |-> d2.rng]

generate_structure(rng, biome, terrain) ==
    CASE biome = "Forest" /\ terrain = "Plain" ->
            pick_structure(rng, 40, "Vegetation(Tree)", 20, "Vegetation(Bush)")
      [] biome = "Mountain" /\ terrain = "Rough" ->
            LET d == gen_bool(rng, 30)
            IN  [structure |-> IF d.value THEN "Landmark(Rock)" ELSE "None", rng |-> d.rng]
      [] biome = "Plains" /\ terrain = "Plain" ->
            pick_structure(rng, 10, "Building(House)", 5, "Landmark(Well)")
      [] OTHER -> [structure |-> "None", rng |-> rng]

\* HashMap::insert
map_insert(map, key, value) ==
    [k \in DOMAIN map \cup {key} |-> IF k = key THEN value ELSE map[k]]

\* the (q, r) pairs of `for q in 0..n { for r in 0..m {` in iteration order
RECURSIVE loop_pairs(_, _, _, _)
loop_pairs(q, r, n, m) ==
    IF q >= n \/ m <= 0 THEN << >>
    ELSE IF r >= m THEN loop_pairs(q + 1, 0, n, m)
    ELSE << <<q, r>> >> \o loop_pairs(q, r + 1, n, m)

\* the body of generate_chunk's loops, run over the (q, r) pairs in order;
\* s holds the grid, the structures and the generator.  The grid starts
\* empty and every cell is keyed by its own elevation, so a neighbour that
\* add_cell finds has the new cell's elevation and no penalty is added.
RECURSIVE generate_cells(_, _, _, _, _)
generate_cells(pairs, position, chunk_size, biome, s) ==
    IF pairs = << >> THEN s
    ELSE
      LET q == Head(pairs)[1]
          r == Head(pairs)[2]
          hex_pos == new_2d(position.x * chunk_size + q, position.y * chunk_size + r)
          t == get_terrain_for_biome(s.rng, biome)
          e == elevation_for_biome(t.rng, biome)
          g == add_cell(s.grid, hex_pos, t.terrain, e.value)
          st == generate_structure(e.rng, biome, t.terrain)
      IN  generate_cells(Tail(pairs), position, chunk_size, biome,
            [grid |-> g,
             structures |-> IF st.structure # "None"
                            THEN map_insert(s.structures, hex_pos, st.structure)
                            ELSE s.structures,
             rng |-> st.rng])

\* generate_chunk: the chunk and the generator after it
generate_chunk(w, position) ==
    LET b == determine_biome(w.rng)
        done == generate_cells(loop_pairs(0, 0, w.chunk_size, w.chunk_size),
                               position, w.chunk_size, b.biome,
                               [grid |-> HexGrid_new, structures |-> << >>,
                                rng |-> b.rng])
    IN  [chunk |-> [position |-> position, grid |-> done.grid,
                    structures |-> done.structures, biome |-> b.biome],
         rng |-> done.rng]

\* get_or_generate_chunk with the `contains_key` test left out
always_generate_chunk(w, position) ==
    LET gen == generate_chunk(w, position)
    IN  [world |-> [w EXCEPT !.chunks = map_insert(w.chunks, position, gen.chunk),
                             !.rng = gen.rng],
         chunk |-> gen.chunk]

\* get_or_generate_chunk: the WorldMap after it and the chunk it returns
get_or_generate_chunk(w, position) ==
    IF position \notin DOMAIN w.chunks
    THEN LET gen == generate_chunk(w, position)
         IN  [world |-> [w EXCEPT !.chunks = map_insert(w.chunks, position, gen.chunk),
                                  !.rng = gen.rng],
              chunk |-> gen.chunk]
    ELSE [world |-> w, chunk |-> w.chunks[position]]

(***************************************************************************)
(* map.rs: MapGenerator.  A distribution table (HashMap<_, f32>) is the    *)
(* sequence of its entries in the order the table iterates them; weights   *)
(* are in hundredths.  The built-in templates are 20x20 and 30x30 in the   *)
(* source and are scaled down here.                                        *)
(***************************************************************************)
TownSize == <<1, 1>>
ForestSize == <<2, 1>>

Entry(key, weight) == [key |-> key, weight |-> weight]

\* the orders in which a HashMap holding these entries can iterate them
iteration_orders(entries) ==
    {o \in [1..Cardinality(entries) -> entries] :
        \A a, b \in DOMAIN o : a # b => o[a] # o[b]}

MapTemplate(name, size, terrain_distribution, structure_distribution) ==
    [name |-> name, size |-> size,
     terrain_distribution |-> terrain_distribution,
     structure_distribution |-> structure_distribution]

\* initialize_templates: the template tables a new MapGenerator can hold
initialize_templates ==
    {[town |-> MapTemplate("Town", TownSize, tt, ts),
      forest |-> MapTemplate("Forest", ForestSize, ft, fs)] :
        tt \in iteration_orders({Entry("Plain", 80), Entry("Rough", 20)}),
        ts \in iteration_orders({Entry("Building(House)", 30),
                                 Entry("Building(Shop)", 10),
                                 Entry("Building(Inn)", 5)}),
        ft \in iteration_orders({Entry("Plain", 60), Entry("Rough", 40)}),
        fs \in iteration_orders({Entry("Vegetation(Tree)", 50),
                                 Entry("Vegetation(Bush)", 20)})}

MapGenerator_with_seed(rng, tables) == [templates |-> tables, rng |-> rng]

\* distribution.values().sum()
RECURSIVE total_weight(_)
total_weight(distribution) ==
    IF distribution = << >> THEN 0
    ELSE Head(distribution).weight + total_weight(Tail(distribution))

\* `for (key, weight) in distribution.iter() { value -= weight; if value <= 0.0
\* { return key } }` and the default after the loop; value is in units of
\* 1 / (100 * RngModulus)
RECURSIVE pick_weighted(_, _, _)
pick_weighted(distribution, value, default) ==
    IF distribution = << >> THEN default
    ELSE LET rest == value - Head(distribution).weight * RngModulus
         IN  IF rest <= 0 THEN Head(distribution).key
             ELSE pick_weighted(Tail(distribution), rest, default)

select_random_terrain(rng, distribution) ==
    LET d == gen_f32(rng)
    IN  [terrain |-> pick_weighted(distribution,
                                   d.numerator * total_weight(distribution), "Plain"),
         rng |-> d.rng]

select_random_structure(rng, distribution) ==
    LET chance == gen_f32(rng)
        d == gen_f32(chance.rng)
    IN  IF chance.numerator * 10 > 3 * RngModulus
        THEN [structure |-> "None", rng |-> chance.rng]
        ELSE [structure |-> pick_weighted(distribution,
                                          d.numerator * total_weight(distribution), "None"),
              rng |-> d.rng]

\* the body of generate_map's loops, run over the (q, r) pairs in order
RECURSIVE generate_map_cells(_, _, _)
generate_map_cells(pairs, template, s) ==
    IF pairs = << >> THEN s
    ELSE
      LET pos == new_2d(Head(pairs)[1], Head(pairs)[2])
          t == select_random_terrain(s.rng, template.terrain_distribution)
          e == gen_range(t.rng, 0, 5)
          g == add_cell(s.grid, pos, t.terrain, e.value)
          st == select_random_structure(e.rng, template.structure_distribution)
      IN  generate_map_cells(Tail(pairs), template,
            [grid |-> g,
             structures |-> IF st.structure # "None"
                            THEN map_insert(s.structures, pos, st.structure)
                            ELSE s.structures,
             rng |-> st.rng])

\* generate_map: the Option<MapChunk> it returns and the generator after it
generate_map(gen, template_name) ==
    IF template_name \notin DOMAIN gen.templates
    THEN [chunk |-> [kind |-> "None"], rng |-> gen.rng]
    ELSE LET template == gen.templates[template_name]
             done == generate_map_cells(
                        loop_pairs(0, 0, template.size[1], template.size[2]),
                        template,
                        [grid |-> HexGrid_new, structures |-> << >>, rng |-> gen.rng])
         IN  [chunk |-> [kind |-> "Some",
                         position |-> ChunkPosition(0, 0),
                         grid |-> done.grid,
                         structures |-> done.structures,
                         biome |-> "Plains"],
              rng |-> done.rng]

(***************************************************************************)
(* structure.rs: Structure.  Of a StructureTemplate the model keeps the    *)
(* fields Structure reads: footprint, required_terrain and                 *)
(* elevation_requirements.                                                 *)
(***************************************************************************)
\* Option<T>
None == [is_some |-> FALSE]
Some(v) == [is_some |-> TRUE, value |-> v]

HexOffset(q, r, terrain) == [q |-> q, r |-> r, terrain |-> terrain]

ElevationRequirement(min, max, relative_to_base) ==
    [min |-> min, max |-> max, relative_to_base |-> relative_to_base]

StructureTemplate(footprint, required_terrain, elevation_requirements) ==
    [footprint |-> footprint, required_terrain |-> required_terrain,
     elevation_requirements |-> elevation_requirements]

\* the position of a footprint offset, as Structure::new and apply_to_grid compute it
offset_position(base_position, offset) ==
    HexPosition(base_position.q + offset.q, base_position.r + offset.r, base_position.z)

Structure_new(template, base_position) ==
    [template |-> template,
     base_position |-> base_position,
     occupied_positions |-> {offset_position(base_position, template.footprint[i]) :
                                i \in 1..Len(template.footprint)}]

NoStructure == Structure_new(StructureTemplate(<< >>, None, None), HexPosition(0, 0, 0))

\* the `if let Some(cell)` body of can_place_at's loop: FALSE where it returns false
cell_meets_requirements(st, g, cell) ==
    /\ st.template.required_terrain.is_some =>
          cell.terrain = st.template.required_terrain.value
    /\ st.template.elevation_requirements.is_some =>
          LET elev_req == st.template.elevation_requirements.value
              base_elevation == IF elev_req.relative_to_base
                                THEN IF has_cell(g, st.base_position)
                                     THEN get_cell(g, st.base_position).elevation
                                     ELSE 0
                                ELSE 0
              target_elevation == cell.elevation - base_elevation
          IN  ~(target_elevation < elev_req.min \/ target_elevation > elev_req.max)

\* can_place_at with an occupied position that holds no cell passed over
can_place_at_skipping_missing(st, g) ==
    \A pos \in st.occupied_positions :
        has_cell(g, pos) => cell_meets_requirements(st, g, get_cell(g, pos))

can_place_at(st, g) ==
    \A pos \in st.occupied_positions :
        IF has_cell(g, pos)
        THEN cell_meets_requirements(st, g, get_cell(g, pos))
        ELSE FALSE

\* apply_offset without the `if let Some(cell)` test: a missing cell is created
\* at the position's own z
apply_offset_unguarded(st, offset, s) ==
    LET pos == offset_position(st.base_position, offset)
    IN  set_cell(s, pos, offset.terrain,
                 IF has_cell(s.grid, pos) THEN get_cell(s.grid, pos).elevation ELSE pos.z)

\* one iteration of apply_to_grid's loop; s holds the grid, whether an add_cell
\* overflowed and the grid as it was when the first one did
apply_offset(st, offset, s) ==
    LET pos == offset_position(st.base_position, offset)
    IN  IF has_cell(s.grid, pos)
        THEN set_cell(s, pos, offset.terrain, get_cell(s.grid, pos).elevation)
        ELSE s

RECURSIVE apply_offsets(_, _, _)
apply_offsets(st, offsets, s) ==
    IF offsets = << >> THEN s
    ELSE apply_offsets(st, Tail(offsets), apply_offset(st, Head(offsets), s))

apply_to_grid(st, g) ==
    apply_offsets(st, st.template.footprint,
                  [grid |-> g, overflowed |-> FALSE, panic_grid |-> g])

NoPlaced == [call |-> "unset", returned |-> "unset", before |-> HexGrid_new]

(***************************************************************************)
(* combat.rs: Combat, and of character.rs the fields next_turn touches.    *)
(* current_turn is the index into participants, counted from 0.            *)
(***************************************************************************)
Character_new(name) ==
    [name |-> name, movement |-> [speed |-> 6, remaining |-> 6]]

reset_movement(character) ==
    [character EXCEPT !.movement.remaining = character.movement.speed]

Combat_new == [participants |-> << >>, current_turn |-> 0]

add_participant(c, character) ==
    [c EXCEPT !.participants = Append(@, character)]

\* self.participants.get(index)
participant_at(c, index) ==
    IF index < Len(c.participants)
    THEN Some([index |-> index, character |-> c.participants[index + 1]])
    ELSE None

\* the `if let Some(character) = self.participants.get_mut(self.current_turn)` of next_turn
reset_current(c) ==
    IF c.current_turn < Len(c.participants)
    THEN [c EXCEPT !.participants[c.current_turn + 1] = reset_movement(@)]
    ELSE c

\* next_turn returning the participant at the index it starts from
next_turn_without_advance(c) ==
    IF c.participants = << >>
    THEN [combat |-> c, returned |-> None]
    ELSE [combat |-> reset_current(c), returned |-> participant_at(reset_current(c), c.current_turn)]

\* next_turn: the Combat after it and the participant it returns
next_turn(c) ==
    IF c.participants = << >>
    THEN [combat |-> c, returned |-> None]
    ELSE LET reset == reset_current(c)
             advanced == [reset EXCEPT
                            !.current_turn = (c.current_turn + 1) % Len(c.participants)]
         IN  [combat |-> advanced,
              returned |-> participant_at(advanced, advanced.current_turn)]

NoTurn == [call |-> "new", before |-> Combat_new, returned |-> None,
           recent |-> << >>, turns |-> 0]

\* HexGrid::distance
grid_distance(g, from, to) == distance(from, to)

NoMeasured == [a |-> HexPosition(0, 0, 0), b |-> HexPosition(0, 0, 0), results |-> << >>]

NoSearch == [start |-> HexPosition(0, 0, 0), goal |-> HexPosition(0, 0, 0),
             open_set |-> {}, came_from |-> << >>, g_score |-> << >>,
             closed_set |-> {}, overflowed |-> FALSE]

NoResult == [kind |-> "unset", path |-> << >>]

\* pop_candidates of a queue that hands out its nodes in any order
pop_candidates_any_order(open_set) == open_set

\* the nodes BinaryHeap::pop may return: those of least priority (Ord is reversed)
pop_candidates(open_set) ==
    {n \in open_set : \A m \in open_set : n.priority <= m.priority}

(***************************************************************************)
(* The path-finding scenario: cells are added to one grid, and find_path   *)
(* runs on it one loop iteration at a time.                                *)
(***************************************************************************)
Positions == {HexPosition(h[1], h[2], z) : h \in Hexes, z \in Elevations}

Init ==
    /\ grid = HexGrid_new
    /\ pc = "idle"
    /\ search = NoSearch
    /\ result = NoResult
    /\ templates = << >>
    /\ applied = NoApplied
    /\ worlds = << >>
    /\ world_log = << >>
    /\ gens = << >>
    /\ gen_log = << >>
    /\ structure = NoStructure
    /\ placed = NoPlaced
    /\ combat = Combat_new
    /\ turn_log = NoTurn
    /\ measured = NoMeasured

\* HexGrid::add_cell, called by the owner of the grid
AddCell(hex, terrain, elevation) ==
    LET position == new_2d(hex[1], hex[2]) IN
    /\ pc = "idle"
    /\ Cardinality(DOMAIN grid.cells \cup {[position EXCEPT !.z = elevation]}) <= MaxCells
    /\ \/ /\ overflow_panics(add_cell_overflows(grid, position, terrain, elevation))
          /\ pc' = "panicked"
          /\ grid' = grid
       \/ /\ overflow_wraps(add_cell_overflows(grid, position, terrain, elevation))
          /\ pc' = pc
          /\ grid' = add_cell(grid, position, terrain, elevation)
    /\ search' = NoSearch
    /\ result' = NoResult
    /\ applied' = NoApplied
    /\ UNCHANGED <<templates, world_vars, gen_vars, struct_vars, combat_vars, measured>>

\* find_path up to the loop: the bounds test and the initial open set
FindPathBegin(start, goal) ==
    /\ pc = "idle"
    /\ IF ~is_in_bounds(grid, start) \/ ~is_in_bounds(grid, goal)
       THEN /\ result' = [kind |-> "none", path |-> << >>]
            /\ search' = [NoSearch EXCEPT !.start = start, !.goal = goal]
            /\ pc' = "returned"
       ELSE /\ search' = [start |-> start, goal |-> goal,
                          open_set |-> {[position |-> start, cost |-> 0, priority |-> 0]},
                          came_from |-> << >>,
                          g_score |-> [k \in {start} |-> 0],
                          closed_set |-> {},
                          overflowed |-> FALSE]
            /\ result' = [kind |-> "pending", path |-> << >>]
            /\ pc' = "searching"
    /\ UNCHANGED <<grid, rule_vars, world_vars, gen_vars, struct_vars, combat_vars, measured>>

\* one iteration of `while let Some(current) = open_set.pop()`, or the exit of the loop
FindPathStep ==
    /\ pc = "searching"
    /\ IF search.open_set = {}
       THEN /\ result' = [kind |-> "none", path |-> << >>]
            /\ pc' = "returned"
            /\ search' = search
       ELSE \E current \in pop_candidates(search.open_set) :
              LET popped == [search EXCEPT !.open_set = @ \ {current}]
              IN  IF current.position = search.goal
                  THEN /\ result' = [kind |-> "path",
                                     path |-> reconstruct_path(search.came_from,
                                                               current.position)]
                       /\ pc' = "returned"
                       /\ search' = popped
                  ELSE IF current.position \in search.closed_set
                  THEN /\ search' = popped
                       /\ UNCHANGED <<result, pc>>
                  ELSE LET closed == [popped EXCEPT !.closed_set = @ \cup {current.position}]
                           after == expand(grid, search.goal, current.position,
                                           get_neighbors(grid, current.position), closed)
                       IN  \/ /\ overflow_panics(after.overflowed)
                              /\ pc' = "panicked"
                              /\ result' = [kind |-> "panic", path |-> << >>]
                              /\ search' = closed
                           \/ /\ overflow_wraps(after.overflowed)
                              /\ search' = after
                              /\ UNCHANGED <<result, pc>>
    /\ UNCHANGED <<grid, rule_vars, world_vars, gen_vars, struct_vars, combat_vars, measured>>

\* the caller drops the result of find_path
FindPathReturn ==
    /\ pc = "returned"
    /\ pc' = "idle"
    /\ search' = NoSearch
    /\ result' = NoResult
    /\ UNCHANGED <<grid, rule_vars, world_vars, gen_vars, struct_vars, combat_vars, measured>>

Next ==
    \/ \E h \in Hexes, t \in TerrainType, e \in Elevations : AddCell(h, t, e)
    \/ \E s \in Positions, g \in Positions : FindPathBegin(s, g)
    \/ FindPathStep
    \/ FindPathReturn

Spec == Init /\ [][Next]_vars

(***************************************************************************)
(* The rule-engine scenario: templates are loaded, cells are added to one  *)
(* grid and templates are applied to it.                                   *)
(***************************************************************************)
TerrainIs(t) == [type |-> "TerrainType", terrain |-> t]
ElevationIn(lo, hi) == [type |-> "ElevationRange", min |-> lo, max |-> hi]
HasTag(tag) == [type |-> "HasTag", tag |-> tag]
Not(c) == [type |-> "Not", condition |-> c]
And(cs) == [type |-> "And", conditions |-> cs]
Or(cs) == [type |-> "Or", conditions |-> cs]
SetTerrain(t) == [type |-> "SetTerrain", terrain |-> t]
SetElevation(e) == [type |-> "SetElevation", elevation |-> e]
AddTag(tag) == [type |-> "AddTag", tag |-> tag]

\* the rules the documents are written with
RuleCatalogue ==
    { Rule("raise", <<TerrainIs("Plain")>>, <<SetElevation(5)>>, 0),
      Rule("roughen", << >>, <<SetTerrain("Rough")>>, 0),
      Rule("flood", <<TerrainIs("Plain"), ElevationIn(0, 4)>>, <<SetTerrain("Water")>>, 3),
      Rule("tagged", <<TerrainIs("Plain"), HasTag("town")>>, <<SetTerrain("Wall")>>, 7),
      Rule("negated", <<Not(TerrainIs("Rough"))>>, <<SetTerrain("Sand")>>, 7),
      Rule("both", <<And(<<TerrainIs("Plain")>>)>>, <<SetTerrain("Swamp")>>, 7),
      Rule("either", <<Or(<<TerrainIs("Plain"), TerrainIs("Rough")>>)>>, <<SetTerrain("Snow")>>, 7),
      Rule("mark", <<TerrainIs("Rough")>>, <<AddTag("seen")>>, 1),
      Rule("last", <<TerrainIs("Plain")>>, <<SetTerrain("Sand")>>, I32_MIN) }

RuleLists == UNION {[1..n -> RuleCatalogue] : n \in 0..MaxRules}

TemplateNames == {"settle"}
ApplyNames == {"settle", "absent"}
RuleHexes == {<<0, 0>>, <<1, 0>>}
RuleTerrains == {"Plain", "Rough"}
RulePositions == {HexPosition(0, 0, 0), HexPosition(1, 0, 0), HexPosition(0, 0, 5)}

\* TemplateEngine::load_template, given a document that parses to `template`
LoadTemplate(template) ==
    /\ pc = "idle"
    /\ templates' = [n \in DOMAIN templates \cup {template.name} |->
                        IF n = template.name THEN template ELSE templates[n]]
    /\ applied' = NoApplied
    /\ UNCHANGED <<grid, pc, path_vars, world_vars, gen_vars, struct_vars, combat_vars, measured>>

\* TemplateEngine::apply_template
ApplyTemplate(name, position) ==
    /\ pc = "idle"
    /\ Cardinality(DOMAIN grid.cells) < MaxCells
    /\ LET out == apply_template(templates, name, grid, position)
       IN  \/ /\ overflow_panics(out.overflowed)
              /\ pc' = "panicked"
              /\ grid' = out.panic_grid
              /\ applied' = [name |-> name, position |-> position, before |-> grid,
                             returned |-> "panic", rule |-> 0]
           \/ /\ overflow_wraps(out.overflowed)
              /\ pc' = "applied"
              /\ grid' = out.grid
              /\ applied' = [name |-> name, position |-> position, before |-> grid,
                             returned |-> out.returned, rule |-> out.rule]
    /\ UNCHANGED <<templates, path_vars, world_vars, gen_vars, struct_vars, combat_vars, measured>>

\* the caller drops the result of apply_template
ApplyReturn ==
    /\ pc = "applied"
    /\ pc' = "idle"
    /\ applied' = NoApplied
    /\ UNCHANGED <<grid, templates, path_vars, world_vars, gen_vars, struct_vars, combat_vars, measured>>

NextRules ==
    \/ \E h \in RuleHexes, t \in RuleTerrains : AddCell(h, t, 0)
    \/ \E n \in TemplateNames, rules \in RuleLists :
          LoadTemplate([name |-> n, description |-> "", rules |-> rules, tags |-> << >>])
    \/ \E n \in ApplyNames, p \in RulePositions : ApplyTemplate(n, p)
    \/ ApplyReturn

SpecRules == Init /\ [][NextRules]_vars

(***************************************************************************)
(* The world-map scenario: two WorldMap instances, each built by with_seed *)
(* and asked for chunks.                                                   *)
(***************************************************************************)
Instances == {1, 2}
Seeds == 0..MaxSeed
ChunkSizes == {1, 2}
ChunkPositions == {ChunkPosition(0, 0), ChunkPosition(1, 0), ChunkPosition(-1, 0)}

NoChunk == [position |-> ChunkPosition(0, 0), grid |-> HexGrid_new,
            structures |-> << >>, biome |-> "unset"]

InitWorld ==
    /\ grid = HexGrid_new
    /\ pc = "idle"
    /\ search = NoSearch
    /\ result = NoResult
    /\ templates = << >>
    /\ applied = NoApplied
    /\ \E sizes \in [Instances -> ChunkSizes], seeds \in [Instances -> Seeds],
          rngs \in [Instances -> 0..(RngModulus - 1)] :
          /\ \A i \in Instances : rngs[i] \in seed_from_u64(seeds[i])
          /\ worlds = [i \in Instances |-> WorldMap_with_seed(sizes[i], rngs[i])]
          /\ world_log = [i \in Instances |->
                            [chunk_size |-> sizes[i], seed |-> seeds[i],
                             calls |-> << >>, last |-> NoChunk]]
    /\ gens = << >>
    /\ gen_log = << >>
    /\ structure = NoStructure
    /\ placed = NoPlaced
    /\ combat = Combat_new
    /\ turn_log = NoTurn
    /\ measured = NoMeasured

\* WorldMap::get_or_generate_chunk on instance i
GetOrGenerateChunk(i, position) ==
    /\ pc = "idle"
    /\ Len(world_log[i].calls) < MaxCalls
    /\ LET out == get_or_generate_chunk(worlds[i], position)
       IN  /\ worlds' = [worlds EXCEPT ![i] = out.world]
           /\ world_log' = [world_log EXCEPT ![i].calls = Append(@, position),
                                             ![i].last = out.chunk]
    /\ UNCHANGED <<grid_vars, gen_vars, struct_vars, combat_vars, measured>>

NextWorld ==
    \E i \in Instances, p \in ChunkPositions : GetOrGenerateChunk(i, p)

SpecWorld == InitWorld /\ [][NextWorld]_vars

(***************************************************************************)
(* The biome scenario: a WorldMap built by WorldMap::new, whose seed is any *)
(* value rand::random() returns, is asked for chunks.                       *)
(***************************************************************************)
RandomSeeds == 0..(RngModulus - 1)

InitWorldNew ==
    /\ grid = HexGrid_new
    /\ pc = "idle"
    /\ search = NoSearch
    /\ result = NoResult
    /\ templates = << >>
    /\ applied = NoApplied
    /\ \E size \in ChunkSizes, seed \in RandomSeeds, rng \in 0..(RngModulus - 1) :
          /\ rng \in seed_from_u64(seed)
          /\ worlds = [i \in {1} |-> WorldMap_with_seed(size, rng)]
          /\ world_log = [i \in {1} |->
                            [chunk_size |-> size, seed |-> seed,
                             calls |-> << >>, last |-> NoChunk]]
    /\ gens = << >>
    /\ gen_log = << >>
    /\ structure = NoStructure
    /\ placed = NoPlaced
    /\ combat = Combat_new
    /\ turn_log = NoTurn
    /\ measured = NoMeasured

NextWorldNew ==
    \E p \in ChunkPositions : GetOrGenerateChunk(1, p)

SpecWorldNew == InitWorldNew /\ [][NextWorldNew]_vars

(***************************************************************************)
(* The area-generator scenario: two MapGenerator instances, each built by  *)
(* with_seed and asked for maps.                                           *)
(***************************************************************************)
MapNames == {"town", "forest", "cave"}

InitGen ==
    /\ grid = HexGrid_new
    /\ pc = "idle"
    /\ search = NoSearch
    /\ result = NoResult
    /\ templates = << >>
    /\ applied = NoApplied
    /\ worlds = << >>
    /\ world_log = << >>
    /\ \E seeds \in [Instances -> Seeds], rngs \in [Instances -> 0..(RngModulus - 1)],
          tables \in [Instances -> initialize_templates] :
          /\ \A i \in Instances : rngs[i] \in seed_from_u64(seeds[i])
          /\ gens = [i \in Instances |-> MapGenerator_with_seed(rngs[i], tables[i])]
          /\ gen_log = [i \in Instances |->
                          [seed |-> seeds[i], calls |-> << >>, returned |-> << >>]]
    /\ structure = NoStructure
    /\ placed = NoPlaced
    /\ combat = Combat_new
    /\ turn_log = NoTurn
    /\ measured = NoMeasured

\* MapGenerator::generate_map on instance i
GenerateMap(i, template_name) ==
    /\ pc = "idle"
    /\ Len(gen_log[i].calls) < MaxGenCalls
    /\ LET out == generate_map(gens[i], template_name)
       IN  /\ gens' = [gens EXCEPT ![i].rng = out.rng]
           /\ gen_log' = [gen_log EXCEPT ![i].calls = Append(@, template_name),
                                         ![i].returned = Append(@, out.chunk)]
    /\ UNCHANGED <<grid_vars, world_vars, struct_vars, combat_vars, measured>>

NextGen ==
    \E i \in Instances, name \in MapNames : GenerateMap(i, name)

SpecGen == InitGen /\ [][NextGen]_vars

(***************************************************************************)
(* The structure scenario: cells are added to one grid, a Structure is     *)
(* built from a template and a base position, and it is validated against  *)
(* and applied onto the grid.                                              *)
(***************************************************************************)
StructureHexes == {<<0, 0>>, <<1, 0>>}
StructureTerrains == {"Plain", "Rough"}
Footprints ==
    { << >>,
      <<HexOffset(0, 0, "Wall")>>,
      <<HexOffset(1, 0, "Rough")>>,
      <<HexOffset(0, 0, "Wall"), HexOffset(1, 0, "Rough")>>,
      <<HexOffset(0, 0, "Plain"), HexOffset(-1, 0, "Wall")>>,
      <<HexOffset(0, 0, "Rough"), HexOffset(0, 0, "Wall")>> }
RequiredTerrains == {None, Some("Plain")}
ElevationRequirements ==
    { None,
      Some(ElevationRequirement(0, 0, TRUE)),
      Some(ElevationRequirement(-1, -1, TRUE)),
      Some(ElevationRequirement(-1, -1, FALSE)),
      Some(ElevationRequirement(0, 1, FALSE)) }
BasePositions == {HexPosition(0, 0, 0), HexPosition(1, 0, 0), HexPosition(0, 0, -1)}

\* Structure::new, once the previous Structure is dropped
NewStructure(template, base_position) ==
    /\ pc = "idle"
    /\ structure = NoStructure
    /\ structure' = Structure_new(template, base_position)
    /\ placed' = NoPlaced
    /\ UNCHANGED <<grid_vars, world_vars, gen_vars, combat_vars, measured>>

\* Structure::can_place_at
CanPlaceAt ==
    /\ pc = "idle"
    /\ pc' = "placed"
    /\ placed' = [call |-> "can_place_at",
                  returned |-> IF can_place_at(structure, grid) THEN "true" ELSE "false",
                  before |-> grid]
    /\ UNCHANGED <<grid, path_vars, rule_vars, structure, world_vars, gen_vars, combat_vars, measured>>

\* Structure::apply_to_grid
ApplyToGrid ==
    /\ pc = "idle"
    /\ LET out == apply_to_grid(structure, grid)
       IN  \/ /\ overflow_panics(out.overflowed)
              /\ pc' = "panicked"
              /\ grid' = out.panic_grid
              /\ placed' = [call |-> "apply_to_grid", returned |-> "panic", before |-> grid]
           \/ /\ overflow_wraps(out.overflowed)
              /\ pc' = "placed"
              /\ grid' = out.grid
              /\ placed' = [call |-> "apply_to_grid", returned |-> "unit", before |-> grid]
    /\ UNCHANGED <<path_vars, rule_vars, structure, world_vars, gen_vars, combat_vars, measured>>

\* the Structure goes out of scope
DropStructure ==
    /\ pc = "idle"
    /\ structure # NoStructure
    /\ structure' = NoStructure
    /\ placed' = NoPlaced
    /\ UNCHANGED <<grid_vars, world_vars, gen_vars, combat_vars, measured>>

\* the caller drops the result of can_place_at or apply_to_grid
PlaceReturn ==
    /\ pc = "placed"
    /\ pc' = "idle"
    /\ placed' = NoPlaced
    /\ UNCHANGED <<grid, path_vars, rule_vars, structure, world_vars, gen_vars, combat_vars, measured>>

NextStructure ==
    \/ \E h \in StructureHexes, t \in StructureTerrains, e \in Elevations : AddCell(h, t, e)
    \/ \E f \in Footprints, t \in RequiredTerrains, e \in ElevationRequirements,
          b \in BasePositions : NewStructure(StructureTemplate(f, t, e), b)
    \/ DropStructure
    \/ CanPlaceAt
    \/ ApplyToGrid
    \/ PlaceReturn

SpecStructure == Init /\ [][NextStructure]_vars

(***************************************************************************)
(* The cell-store scenario: one grid is written by add_cell, by             *)
(* apply_template and by Structure::apply_to_grid, at elevations that       *)
(* differ by 1 and by more than 1.                                          *)
(***************************************************************************)
CellHexes == {<<0, 0>>, <<1, 0>>}
CellTerrains == {"Plain", "Wall"}
CellElevations == {0, 1, 3}
CellRuleLists ==
    { <<Rule("lift", << >>, <<SetElevation(3)>>, 0)>>,
      <<Rule("roughen", << >>, <<SetTerrain("Rough")>>, 0)>> }
CellFootprints == { <<HexOffset(0, 0, "Rough"), HexOffset(1, 0, "Wall")>> }
CellBasePositions == {HexPosition(0, 0, 0), HexPosition(0, 0, 3)}

NextCells ==
    \/ \E h \in CellHexes, t \in CellTerrains, e \in CellElevations : AddCell(h, t, e)
    \/ \E n \in TemplateNames, rules \in CellRuleLists :
          LoadTemplate([name |-> n, description |-> "", rules |-> rules, tags |-> << >>])
    \/ \E n \in TemplateNames, h \in CellHexes, e \in CellElevations :
          ApplyTemplate(n, HexPosition(h[1], h[2], e))
    \/ ApplyReturn
    \/ \E f \in CellFootprints, b \in CellBasePositions :
          NewStructure(StructureTemplate(f, None, None), b)
    \/ DropStructure
    \/ ApplyToGrid
    \/ PlaceReturn

SpecCells == Init /\ [][NextCells]_vars

(***************************************************************************)
(* The bounds scenario: find_path runs on grids whose cells sit at the      *)
(* limits of the elevation rules of is_in_bounds.                           *)
(***************************************************************************)
BoundsCell(q, r, terrain, elevation) ==
    [hex |-> <<q, r>>, terrain |-> terrain, elevation |-> elevation]

BoundsCells ==
    { BoundsCell(0, 0, "Plain", 0),  BoundsCell(0, 0, "Water", 1),
      BoundsCell(0, 0, "Lava", 2),   BoundsCell(0, 0, "Lava", 3),
      BoundsCell(0, 0, "Snow", 4),   BoundsCell(0, 0, "Snow", 5),
      BoundsCell(1, 0, "Water", 0),  BoundsCell(1, 0, "Sand", 15),
      BoundsCell(1, 0, "Plain", 16), BoundsCell(1, 0, "Snow", 16),
      BoundsCell(1, 0, "Swamp", -10), BoundsCell(1, 0, "Rough", -11),
      BoundsCell(0, 1, "Lava", -11) }

BoundsLevels == {-11, -10, 0, 1, 2, 3, 4, 5, 15, 16}
BoundsStarts == {HexPosition(q, 0, z) : q \in {0, 1}, z \in {-11, 0, 1, 5, 16}}
BoundsGoals == {HexPosition(0, 0, 0), HexPosition(1, 0, 0)}

NextBounds ==
    \/ \E c \in BoundsCells : AddCell(c.hex, c.terrain, c.elevation)
    \/ \E s \in BoundsStarts, g \in BoundsGoals : FindPathBegin(s, g)
    \/ FindPathStep
    \/ FindPathReturn

SpecBounds == Init /\ [][NextBounds]_vars

(***************************************************************************)
(* The termination scenario: find_path on a square of four positions,      *)
(* towards one corner, two routes of different weight leading to it, and   *)
(* towards a position that holds no cell.                                   *)
(* find_path is sequential code: once called, its loop keeps taking steps.  *)
(***************************************************************************)
TerminationCells ==
    { BoundsCell(0, 0, "Plain", 0), BoundsCell(1, 0, "Plain", 0),
      BoundsCell(0, 0, "Plain", -1), BoundsCell(1, 0, "Plain", -1),
      BoundsCell(1, 0, "Water", -1) }
TerminationStarts == {HexPosition(0, 0, 0), HexPosition(0, 0, -1)}
TerminationGoals == {HexPosition(1, 0, -1), HexPosition(0, 0, -2)}

NextTermination ==
    \/ \E c \in TerminationCells : AddCell(c.hex, c.terrain, c.elevation)
    \/ \E s \in TerminationStarts, g \in TerminationGoals : FindPathBegin(s, g)
    \/ FindPathStep
    \/ FindPathReturn

SpecTermination == Init /\ [][NextTermination]_vars /\ WF_vars(FindPathStep)

(***************************************************************************)
(* The combat scenario: participants join one Combat and turns are taken.  *)
(***************************************************************************)
CharacterNames == {"Fighter 1", "Fighter 2"}

\* the last n elements of seq
last_n(seq, n) ==
    IF Len(seq) <= n THEN seq ELSE SubSeq(seq, Len(seq) - n + 1, Len(seq))

\* Combat::add_participant
AddParticipant(name) ==
    /\ pc = "idle"
    /\ Len(combat.participants) < MaxParticipants
    /\ combat' = add_participant(combat, Character_new(name))
    /\ turn_log' = [turn_log EXCEPT !.call = "add_participant", !.before = combat,
                                    !.returned = None, !.recent = << >>]
    /\ UNCHANGED <<grid_vars, world_vars, gen_vars, struct_vars, measured>>

\* Combat::next_turn; the log keeps the indices returned since the last
\* add_participant, as many as there are participants, and counts the calls
\* up to one more than MaxParticipants
NextTurn ==
    /\ pc = "idle"
    /\ LET out == next_turn(combat)
       IN  /\ combat' = out.combat
           /\ turn_log' = [call |-> "next_turn",
                           before |-> combat,
                           returned |-> out.returned,
                           recent |-> IF ~out.returned.is_some THEN turn_log.recent
                                      ELSE last_n(Append(turn_log.recent,
                                                         out.returned.value.index),
                                                  Len(combat.participants)),
                           turns |-> IF turn_log.turns <= MaxParticipants
                                     THEN turn_log.turns + 1 ELSE turn_log.turns]
    /\ UNCHANGED <<grid_vars, world_vars, gen_vars, struct_vars, measured>>

NextCombat ==
    \/ \E name \in CharacterNames : AddParticipant(name)
    \/ NextTurn

SpecCombat == Init /\ [][NextCombat]_vars

(***************************************************************************)
(* The distance scenario: for two positions a and b, a.distance(b),        *)
(* b.distance(a) and a.distance(a) are computed, then grid.distance(a, b). *)
(***************************************************************************)
Coords == (-MaxCoord)..MaxCoord
MeasuredPositions == {HexPosition(q, r, z) : q \in Coords, r \in Coords, z \in Coords}

InitDistance ==
    /\ grid = HexGrid_new
    /\ pc = "idle"
    /\ search = NoSearch
    /\ result = NoResult
    /\ templates = << >>
    /\ applied = NoApplied
    /\ worlds = << >>
    /\ world_log = << >>
    /\ gens = << >>
    /\ gen_log = << >>
    /\ structure = NoStructure
    /\ placed = NoPlaced
    /\ combat = Combat_new
    /\ turn_log = NoTurn
    /\ \E a \in MeasuredPositions, b \in MeasuredPositions :
          measured = [a |-> a, b |-> b, results |-> << >>]

\* HexPosition::distance, called on a with b, on b with a, then on a with a
PositionDistance ==
    /\ Len(measured.results) < 3
    /\ measured' = [measured EXCEPT !.results =
          Append(@, CASE Len(measured.results) = 0 -> distance(measured.a, measured.b)
                      [] Len(measured.results) = 1 -> distance(measured.b, measured.a)
                      [] OTHER -> distance(measured.a, measured.a))]
    /\ UNCHANGED <<grid_vars, world_vars, gen_vars, struct_vars, combat_vars>>

\* HexGrid::distance, called with a and b
GridDistance ==
    /\ Len(measured.results) = 3
    /\ measured' = [measured EXCEPT !.results =
          Append(@, grid_distance(grid, measured.a, measured.b))]
    /\ UNCHANGED <<grid_vars, world_vars, gen_vars, struct_vars, combat_vars>>

NextDistance ==
    \/ PositionDistance
    \/ GridDistance

SpecDistance == InitDistance /\ [][NextDistance]_vars

(***************************************************************************)
(* Definitions the properties of find_path are stated with.                *)
(***************************************************************************)
Range(seq) == {seq[i] : i \in 1..Len(seq)}

impassable(g, position) ==
    has_cell(g, position) /\ get_cell(g, position).terrain \in {"Wall", "Lava"}

\* b can be entered from a in the search: a neighbor that holds a passable cell
is_search_edge(g, a, b) ==
    /\ b \in Range(get_neighbors(g, a))
    /\ has_cell(g, b)
    /\ get_cell(g, b).movement_cost # I32_MAX

RECURSIVE reach_from(_, _)
reach_from(g, seen) ==
    LET more == {b \in Positions : \E a \in seen : is_search_edge(g, a, b)} \ seen
    IN  IF more = {} THEN seen ELSE reach_from(g, seen \cup more)

reachable(g, start, goal) == goal \in reach_from(g, {start})

find_path_ended ==
    pc = "returned" \/ (pc = "panicked" /\ result.kind = "panic")

\* C1: a path returned by find_path has no interior node (a node other than its
\* first and last) whose cell has terrain Wall or Lava.
C1_NoImpassableInterior ==
    (pc = "returned" /\ result.kind = "path") =>
        \A i \in 2..(Len(result.path) - 1) : ~impassable(grid, result.path[i])

\* A path with an interior node was returned, from a start that holds a passable
\* cell, on a grid where a Wall or Lava cell is a neighbor of the start.
C1_Witness ==
    /\ pc = "returned" /\ result.kind = "path"
    /\ Len(result.path) >= 3
    /\ has_cell(grid, search.start) /\ ~impassable(grid, search.start)
    /\ ~search.overflowed
    /\ \E n \in Range(get_neighbors(grid, search.start)) : impassable(grid, n)

\* C2: on the grid built by add_cell((0,0), Plain, 0) and add_cell((1,0), Water, -1),
\* find_path from (0,0,0) to the Water cell's position returns a path of exactly
\* 2 nodes whose edge weight is 5.
C2_Grid ==
    add_cell(add_cell(HexGrid_new, new_2d(0, 0), "Plain", 0), new_2d(1, 0), "Water", -1)

C2_WaterScenario ==
    (/\ grid = C2_Grid
     /\ find_path_ended
     /\ search.start = HexPosition(0, 0, 0)
     /\ search.goal = HexPosition(1, 0, -1))
    => /\ result.kind = "path"
       /\ Len(result.path) = 2
       /\ get_cell(grid, result.path[2]).movement_cost
            + elevation_cost(grid, result.path[1], result.path[2]) = 5

\* C3: find_path returns none whenever start or goal fails is_in_bounds and
\* whenever no sequence of search edges leads from start to goal; neither case
\* ends otherwise.
C3_NoneWhenOutOfBoundsOrUnreachable ==
    (/\ find_path_ended
     /\ \/ ~is_in_bounds(grid, search.start)
        \/ ~is_in_bounds(grid, search.goal)
        \/ ~reachable(grid, search.start, search.goal))
    => result.kind = "none"

\* C4: a returned path starts at start, ends at goal, is the single node when
\* start = goal, and each consecutive pair of it is a search edge.
C4_PathIsChainOfSearchEdges ==
    (pc = "returned" /\ result.kind = "path") =>
        /\ Len(result.path) >= 1
        /\ result.path[1] = search.start
        /\ result.path[Len(result.path)] = search.goal
        /\ (search.start = search.goal => Len(result.path) = 1)
        /\ \A i \in 1..(Len(result.path) - 1) :
               is_search_edge(grid, result.path[i], result.path[i + 1])

\* A path of three nodes or more was returned.
C4_Witness ==
    /\ pc = "returned" /\ result.kind = "path"
    /\ Len(result.path) >= 3
    /\ search.start # search.goal

\* C19: an edge with a Wall or Lava endpoint is excluded from the search, ahead
\* of the Water, Snow and Rough multipliers: no two consecutive nodes of a
\* returned path include a Wall or Lava cell, so no path of two or more nodes
\* leaves a Wall or Lava start cell.
C19_NoStepFromWallOrLava ==
    (pc = "returned" /\ result.kind = "path") =>
        \A i \in 1..(Len(result.path) - 1) :
            /\ ~impassable(grid, result.path[i])
            /\ ~impassable(grid, result.path[i + 1])

\* the sum over the steps (path[i], path[i+1]), i from k on, of the entered
\* cell's movement_cost plus the pairwise elevation cost, as [value, overflow]:
\* overflow tells that the sum, or a partial sum, is outside the i32 range
RECURSIVE path_weight(_, _, _)
path_weight(g, path, k) ==
    IF k >= Len(path) THEN [value |-> 0, overflow |-> FALSE]
    ELSE LET edge == add_i32(get_cell(g, path[k + 1]).movement_cost,
                             elevation_cost(g, path[k], path[k + 1]))
             rest == path_weight(g, path, k + 1)
             total == add_i32(edge.value, rest.value)
         IN  [value |-> total.value,
              overflow |-> edge.overflow \/ rest.overflow \/ total.overflow]

\* C20: the g-score recorded for the goal of a returned path is the sum of the
\* edge weights along the path (movement_cost of the entered cell plus the
\* pairwise elevation cost), and the recorded cost and back-pointer of a
\* finalized node never change while the search goes on.
C20_GoalCostIsPathWeight ==
    /\ []((pc = "returned" /\ result.kind = "path") =>
            /\ ~path_weight(grid, result.path, 1).overflow
            /\ search.g_score[search.goal] = path_weight(grid, result.path, 1).value)
    /\ [][(pc = "searching" /\ pc' \in {"searching", "returned"}) =>
            \A p \in search.closed_set :
                /\ p \in DOMAIN search'.g_score
                /\ search'.g_score[p] = search.g_score[p]
                /\ (p \in DOMAIN search.came_from) <=> (p \in DOMAIN search'.came_from)
                /\ p \in DOMAIN search.came_from =>
                      search'.came_from[p] = search.came_from[p]]_vars

\* C21: for a start and a goal that pass is_in_bounds, every sum find_path
\* computes (g-score + movement_cost + elevation cost, and the f-score) is inside
\* the signed 32-bit range: the search neither stops on an arithmetic overflow
\* nor goes on with a wrapped cost.
C21_NoOverflowInFindPath ==
    (/\ pc \in {"searching", "returned", "panicked"}
     /\ is_in_bounds(grid, search.start)
     /\ is_in_bounds(grid, search.goal))
    => /\ result.kind # "panic"
       /\ ~search.overflowed

\* the weight of the search edge from a to b
edge_weight(g, a, b) == get_cell(g, b).movement_cost + elevation_cost(g, a, b)

\* the chains of search edges from start to goal that visit no more nodes
\* than there are positions; a longer chain repeats a node and, every edge
\* weighing 1 or more, is heavier than the chain without the loop
chains(g, start, goal) ==
    {c \in UNION {[1..n -> Positions] : n \in 1..Cardinality(Positions)} :
        /\ c[1] = start
        /\ c[Len(c)] = goal
        /\ \A i \in 1..(Len(c) - 1) : is_search_edge(g, c[i], c[i + 1])}

\* C27: when start holds a cell whose terrain is neither Wall nor Lava, a path
\* returned by find_path has the least total edge weight of all chains of
\* search edges from start to goal.
C27_ReturnedPathIsLeastWeight ==
    (/\ pc = "returned" /\ result.kind = "path"
     /\ has_cell(grid, search.start)
     /\ ~impassable(grid, search.start))
    => /\ ~path_weight(grid, result.path, 1).overflow
       /\ \A c \in chains(grid, search.start, search.goal) :
              path_weight(grid, result.path, 1).value <= path_weight(grid, c, 1).value

\* a path of three nodes was returned from a passable start cell although
\* another chain of two search edges, of greater weight, leads to the goal
C27_Witness ==
    /\ pc = "returned" /\ result.kind = "path"
    /\ has_cell(grid, search.start)
    /\ ~impassable(grid, search.start)
    /\ Len(result.path) = 3
    /\ \E m \in Positions \ Range(result.path) :
          /\ is_search_edge(grid, search.start, m)
          /\ is_search_edge(grid, m, search.goal)
          /\ edge_weight(grid, search.start, m) + edge_weight(grid, m, search.goal)
               > path_weight(grid, result.path, 1).value

\* the nodes a step has pushed onto the open set
pushed == search'.open_set \ search.open_set

\* C30: find_path terminates: a search that has begun ends; each position is
\* finalized at most once (a step that pushes nodes finalizes exactly one
\* position, which was not finalized before, and no finalized position is
\* pushed or dropped from the closed set); and a position is pushed again only
\* when its recorded cost strictly decreases.
C30_FindPathTerminates ==
    /\ (pc = "searching") ~> find_path_ended
    /\ [][(pc = "searching" /\ pc' = "searching") =>
            /\ search.closed_set \subseteq search'.closed_set
            /\ Cardinality(search'.closed_set \ search.closed_set) <= 1
            /\ pushed # {} =>
                  /\ Cardinality(search'.closed_set \ search.closed_set) = 1
                  /\ \A n \in pushed :
                        /\ n.position \notin search'.closed_set
                        /\ n.position \in DOMAIN search.g_score =>
                              n.cost < search.g_score[n.position]]_vars

\* a position is on the open set twice, pushed again at a lower cost, after
\* two positions were finalized
C30_Witness ==
    /\ pc = "searching"
    /\ Cardinality(search.closed_set) >= 2
    /\ \E n, m \in search.open_set : n.position = m.position /\ n.cost < m.cost

(***************************************************************************)
(* Definitions the properties of apply_template are stated with.           *)
(***************************************************************************)
apply_ended == applied.returned # "unset"

applied_rules == templates[applied.name].rules

\* the document indices of the rules whose every condition holds at the target
qualifying_rules ==
    IF applied.name \in DOMAIN templates
    THEN {i \in 1..Len(applied_rules) :
            evaluate_conditions(applied_rules[i].conditions, applied.before, applied.position)}
    ELSE {}

\* the qualifying rule of highest priority, the first in the document among equals
best_rule ==
    CHOOSE i \in qualifying_rules : \A j \in qualifying_rules :
        \/ applied_rules[j].priority < applied_rules[i].priority
        \/ (applied_rules[j].priority = applied_rules[i].priority /\ i <= j)

actions_alone(rule) ==
    apply_actions(rule.actions,
                  [grid |-> applied.before, overflowed |-> FALSE, panic_grid |-> applied.before],
                  applied.position).grid

\* C8: for a registered template with a qualifying rule, apply_template returns
\* true and applies the actions of exactly one rule: the qualifying rule of
\* highest priority, the first in the document among equal priorities.
C8_HighestPriorityRuleApplied ==
    (apply_ended /\ qualifying_rules # {}) =>
        /\ applied.returned = "true"
        /\ applied.rule = best_rule
        /\ grid = actions_alone(applied_rules[best_rule])

\* C9: apply_template returns false exactly when the name is not registered or
\* no rule qualifies, and then the grid is as it was.
C9_FalseIffNoRuleAndGridKept ==
    apply_ended =>
        /\ (applied.returned = "false") <=> (qualifying_rules = {})
        /\ (applied.returned = "false") => (grid = applied.before)

\* C10: after a matched rule whose action is SetElevation{e} at a position
\* holding a cell of terrain t, the grid holds exactly one cell for that hex,
\* with elevation e and terrain t, as many cells as before, and every other
\* cell as it was.
C10_SetElevationReplaces ==
    (/\ applied.returned = "true"
     /\ Len(applied_rules[applied.rule].actions) = 1
     /\ applied_rules[applied.rule].actions[1].type = "SetElevation"
     /\ has_cell(applied.before, applied.position))
    => LET e == applied_rules[applied.rule].actions[1].elevation
           t == get_cell(applied.before, applied.position).terrain
           same_hex(k) == k.q = applied.position.q /\ k.r = applied.position.r
           here == {k \in DOMAIN grid.cells : same_hex(k)}
       IN  /\ Cardinality(here) = 1
           /\ \A k \in here : grid.cells[k].elevation = e /\ grid.cells[k].terrain = t
           /\ Cardinality(DOMAIN grid.cells) = Cardinality(DOMAIN applied.before.cells)
           /\ \A k \in DOMAIN applied.before.cells :
                  ~same_hex(k) => (has_cell(grid, k) /\ grid.cells[k] = applied.before.cells[k])


matched_rule_priority == applied_rules[applied.rule].priority

\* C22: for rule priorities that may be any i32, the minimum -2^31 included,
\* apply_template orders the rules without arithmetic overflow: the call does
\* not stop on the negation of a priority, and a matching rule of priority
\* -2^31 is applied only if no matching rule has a greater priority.
C22_MinimumPrioritySortsLast ==
    (apply_ended /\ applied.name \in DOMAIN templates) =>
        /\ applied.returned # "panic"
        /\ (applied.returned = "true" /\ matched_rule_priority = I32_MIN) =>
               \A j \in qualifying_rules : applied_rules[j].priority = I32_MIN

\* the rule apply_template matched, when it matched one
matched_rule == applied_rules[applied.rule]

\* C11: after apply_template matched a rule whose action is SetTerrain{t} at a
\* position holding a cell, the cell at that position has terrain t and the
\* elevation it had, the set of cell positions is as before and every other
\* cell is as it was.
C11_SetTerrainKeepsElevation ==
    (/\ applied.returned = "true"
     /\ Len(matched_rule.actions) = 1
     /\ matched_rule.actions[1].type = "SetTerrain"
     /\ has_cell(applied.before, applied.position))
    => /\ DOMAIN grid.cells = DOMAIN applied.before.cells
       /\ get_cell(grid, applied.position).terrain = matched_rule.actions[1].terrain
       /\ get_cell(grid, applied.position).elevation
             = get_cell(applied.before, applied.position).elevation
       /\ \A k \in DOMAIN applied.before.cells \ {applied.position} :
             grid.cells[k] = applied.before.cells[k]

\* SetTerrain changed the terrain of a cell of elevation 5 in a grid that holds
\* another cell
C11_Witness ==
    /\ applied.returned = "true"
    /\ Len(matched_rule.actions) = 1
    /\ matched_rule.actions[1].type = "SetTerrain"
    /\ has_cell(applied.before, applied.position)
    /\ get_cell(applied.before, applied.position).elevation = 5
    /\ get_cell(applied.before, applied.position).terrain # matched_rule.actions[1].terrain
    /\ get_cell(grid, applied.position).terrain = matched_rule.actions[1].terrain
    /\ Cardinality(DOMAIN grid.cells) >= 2

\* C12: the rule apply_template applies has only TerrainType and ElevationRange
\* conditions (never HasTag, Not, And, Or or another kind), the target holds
\* a cell, each TerrainType names the cell's terrain and each ElevationRange
\* has min <= elevation <= max.
C12_OnlyImplementedConditionsMatch ==
    (apply_ended /\ applied.rule # 0) =>
        \A i \in 1..Len(matched_rule.conditions) :
            LET c == matched_rule.conditions[i]
            IN  /\ c.type \in {"TerrainType", "ElevationRange"}
                /\ has_cell(applied.before, applied.position)
                /\ c.type = "TerrainType" =>
                      get_cell(applied.before, applied.position).terrain = c.terrain
                /\ c.type = "ElevationRange" =>
                      /\ c.min <= get_cell(applied.before, applied.position).elevation
                      /\ get_cell(applied.before, applied.position).elevation <= c.max

\* a rule was applied although the template holds a rule of greater priority
\* whose only condition is a Not, And or Or whose operands make it hold
C12_Witness ==
    /\ applied.returned = "true"
    /\ has_cell(applied.before, applied.position)
    /\ Len(matched_rule.conditions) >= 1
    /\ Len(applied_rules) = 2
    /\ applied_rules[1].conditions # << >>
    /\ applied_rules[1].conditions[1].type \in {"Not", "And", "Or"}
    /\ applied_rules[1].priority > matched_rule.priority
    /\ condition_holds_combinators(applied_rules[1].conditions[1], applied.before,
                                   applied.position)

\* C13: when apply_template matched a rule whose actions are all of kinds other
\* than SetTerrain and SetElevation, or the target position holds no cell, it
\* returns true and the grid is as it was.
C13_OtherActionsLeaveGrid ==
    (/\ apply_ended
     /\ applied.rule # 0
     /\ \/ \A i \in 1..Len(matched_rule.actions) :
              matched_rule.actions[i].type \notin {"SetTerrain", "SetElevation"}
        \/ ~has_cell(applied.before, applied.position))
    => /\ applied.returned = "true"
       /\ grid = applied.before

\* a rule with a SetTerrain action was matched at a position without a cell,
\* in a grid that holds cells
C13_Witness ==
    /\ applied.returned = "true"
    /\ ~has_cell(applied.before, applied.position)
    /\ applied.before.cells # << >>
    /\ \E i \in 1..Len(matched_rule.actions) : matched_rule.actions[i].type = "SetTerrain"

(***************************************************************************)
(* Definitions the properties of the cell store are stated with.           *)
(***************************************************************************)

\* C23: after any sequence of add_cell, apply_template and apply_to_grid calls,
\* every cell stored in the grid is keyed by its own position, and its elevation
\* is the z-component of that position.
C23_CellKeyedByPositionAtElevation ==
    \A k \in DOMAIN grid.cells :
        /\ get_cell(grid, k).position = k
        /\ get_cell(grid, k).elevation = k.z

\* apply_to_grid has just rewritten a cell of a grid that holds cells at
\* elevation 3 and at a lower elevation, one of them put there by a rule's
\* SetTerrain or by an earlier apply_to_grid.
C23_Witness ==
    /\ pc = "placed"
    /\ placed.call = "apply_to_grid"
    /\ grid # placed.before
    /\ \E k \in DOMAIN grid.cells : k.z = 3
    /\ \E k \in DOMAIN grid.cells : k.z < 3
    /\ \E k \in DOMAIN placed.before.cells : get_cell(placed.before, k).terrain = "Rough"

\* the positions is_in_bounds and get_neighbors are compared at
BoundsProbes ==
    {HexPosition(q, 0, z) : q \in 0..1, z \in BoundsLevels}
    \cup {HexPosition(0, 1, -11), HexPosition(0, 1, 0), HexPosition(-1, 0, 0),
          HexPosition(2, 0, 0), HexPosition(0, -1, 0), HexPosition(0, 2, 0)}

within(x, low, high) == low <= x /\ x <= high

\* the rule of C24 for a position p of grid g
passes_bounds_rule(g, p) ==
    /\ 0 <= p.q /\ p.q < g.size[1]
    /\ 0 <= p.r /\ p.r < g.size[2]
    /\ \/ /\ p \in DOMAIN g.cells
          /\ LET terrain == g.cells[p].terrain
                 elevation == g.cells[p].elevation
             IN  \/ terrain = "Water" /\ elevation <= 0
                 \/ terrain = "Snow" /\ elevation >= 5
                 \/ terrain = "Lava" /\ elevation <= 2
                 \/ terrain \notin {"Water", "Snow", "Lava"} /\ within(elevation, -10, 15)
       \/ /\ p \notin DOMAIN g.cells
          /\ within(p.z, -10, 15)

\* E, NE, NW, W, SW, SE at the same z, then z+1, then z-1
eight_candidates(p) ==
    << HexPosition(p.q + 1, p.r, p.z),     HexPosition(p.q + 1, p.r - 1, p.z),
       HexPosition(p.q, p.r - 1, p.z),     HexPosition(p.q - 1, p.r, p.z),
       HexPosition(p.q - 1, p.r + 1, p.z), HexPosition(p.q, p.r + 1, p.z),
       HexPosition(p.q, p.r, p.z + 1),     HexPosition(p.q, p.r, p.z - 1) >>

\* C24: is_in_bounds(p) is true exactly when 0 <= q < width, 0 <= r < height
\* and either the cell stored at exactly p satisfies its terrain's elevation
\* rule (Water <= 0, Snow >= 5, Lava <= 2, any other terrain in -10..15) or no
\* cell is stored at p and p.z is in -10..15; get_neighbors returns, in order,
\* exactly those of the eight candidates that pass is_in_bounds.
C24_InBoundsRuleAndNeighbors ==
    \A p \in BoundsProbes :
        /\ is_in_bounds(grid, p) <=> passes_bounds_rule(grid, p)
        /\ LET Passes(n) == passes_bounds_rule(grid, n)
           IN  get_neighbors(grid, p) = SelectSeq(eight_candidates(p), Passes)

\* find_path returned none on its bounds test for a start that holds a Water
\* cell above elevation 0, on a grid where the goal has a neighbor and has
\* in-grid candidates that are not its neighbors.
C24_Witness ==
    /\ pc = "returned" /\ result.kind = "none"
    /\ has_cell(grid, search.start)
    /\ get_cell(grid, search.start).terrain = "Water"
    /\ get_cell(grid, search.start).elevation > 0
    /\ get_neighbors(grid, search.goal) # << >>
    /\ \E n \in Range(eight_candidates(search.goal)) :
          /\ 0 <= n.q /\ n.q < grid.size[1] /\ 0 <= n.r /\ n.r < grid.size[2]
          /\ n \notin Range(get_neighbors(grid, search.goal))

\* the positions add_cell can be called with in the cell-store scenario, after
\* `position.z = elevation`
CellPositions == {HexPosition(h[1], h[2], e) : h \in CellHexes, e \in CellElevations}

\* C26: after any sequence of add_cell calls, direct or through apply_template
\* and apply_to_grid, every stored cell's movement_cost is the base cost of its
\* terrain (Plain 1; Rough, Sand, Snow 2; Water, Swamp 3; Wall, Lava i32::MAX):
\* the neighbor add_cell would find for a new cell differs from it in elevation
\* by at most 1, so the penalty is never added.
C26_MovementCostIsBaseCost ==
    /\ \A k \in DOMAIN grid.cells :
          get_cell(grid, k).movement_cost =
              CASE get_cell(grid, k).terrain = "Plain" -> 1
                [] get_cell(grid, k).terrain \in {"Rough", "Sand", "Snow"} -> 2
                [] get_cell(grid, k).terrain \in {"Water", "Swamp"} -> 3
                [] get_cell(grid, k).terrain \in {"Wall", "Lava"} -> I32_MAX
    /\ \A p \in CellPositions :
          neighbor_cells(grid, p) # << >> =>
              Abs(p.z - get_cell(grid, neighbor_cells(grid, p)[1]).elevation) <= 1

\* apply_template has just written a cell through add_cell, on a grid that
\* holds two cells of one hex one level apart (each a neighbor of the other)
\* and cells of adjacent hexes more than one level apart
C26_Witness ==
    /\ pc = "applied"
    /\ applied.returned = "true"
    /\ grid # applied.before
    /\ \E a, b \in DOMAIN grid.cells :
          /\ a.q = b.q /\ a.r = b.r /\ a.z = b.z + 1
          /\ a \in Range(get_neighbors(grid, b))
    /\ \E a, b \in DOMAIN grid.cells : a.q # b.q /\ Abs(a.z - b.z) > 1

(***************************************************************************)
(* Definitions the properties of Structure are stated with.                *)
(***************************************************************************)
\* the positions the footprint covers: the base position plus each offset, at
\* the base position's z
footprint_positions ==
    {HexPosition(structure.base_position.q + structure.template.footprint[i].q,
                 structure.base_position.r + structure.template.footprint[i].r,
                 structure.base_position.z) :
        i \in 1..Len(structure.template.footprint)}

\* the reference elevation of a declared elevation requirement: the base
\* cell's elevation if the requirement is base-relative (0 if the base
\* position holds no cell), else 0
reference_elevation(g, requirement) ==
    IF requirement.relative_to_base /\ structure.base_position \in DOMAIN g.cells
    THEN g.cells[structure.base_position].elevation
    ELSE 0

\* what the claim requires of a covered position for placement to be valid
placement_valid_at(g, pos) ==
    /\ pos \in DOMAIN g.cells
    /\ structure.template.required_terrain.is_some =>
          g.cells[pos].terrain = structure.template.required_terrain.value
    /\ structure.template.elevation_requirements.is_some =>
          LET requirement == structure.template.elevation_requirements.value
              relative == g.cells[pos].elevation - reference_elevation(g, requirement)
          IN  requirement.min <= relative /\ relative <= requirement.max

\* C14: can_place_at returns true if and only if every covered position holds
\* a cell that has the required terrain (when one is declared) and whose
\* elevation minus the reference lies in [min, max] (when an elevation
\* requirement is declared); it leaves the grid as it was.
C14_CanPlaceAtIffAllCellsFit ==
    placed.call = "can_place_at" =>
        /\ (placed.returned = "true")
              <=> (\A pos \in footprint_positions : placement_valid_at(placed.before, pos))
        /\ grid = placed.before

\* can_place_at returned true for a footprint of two positions under a
\* base-relative elevation requirement and a required terrain
C14_Witness ==
    /\ placed.call = "can_place_at"
    /\ placed.returned = "true"
    /\ Cardinality(footprint_positions) = 2
    /\ structure.template.required_terrain.is_some
    /\ structure.template.elevation_requirements.is_some
    /\ structure.template.elevation_requirements.value.relative_to_base

\* can_place_at returned false although every covered position holds a cell:
\* the elevation requirement failed against a base position without a cell
C14_WitnessRejected ==
    /\ placed.call = "can_place_at"
    /\ placed.returned = "false"
    /\ footprint_positions # {}
    /\ footprint_positions \subseteq DOMAIN grid.cells
    /\ structure.base_position \notin DOMAIN grid.cells

\* the terrain of the last footprint offset that lands on pos
last_offset_terrain(pos) ==
    LET landing == {i \in 1..Len(structure.template.footprint) :
                      HexPosition(structure.base_position.q + structure.template.footprint[i].q,
                                  structure.base_position.r + structure.template.footprint[i].r,
                                  structure.base_position.z) = pos}
        last == CHOOSE i \in landing : \A j \in landing : j <= i
    IN  structure.template.footprint[last].terrain

\* C15: apply_to_grid leaves the set of cell positions and every cell's
\* elevation as they were and every cell outside the footprint unmodified;
\* each covered position that held a cell has the terrain of its footprint
\* offset (of the last one, where several offsets land on it); an offset whose
\* destination holds no cell creates none.
C15_ApplyToGridChangesOnlyTerrain ==
    placed.call = "apply_to_grid" =>
        /\ placed.returned = "unit"
        /\ DOMAIN grid.cells = DOMAIN placed.before.cells
        /\ \A k \in DOMAIN grid.cells :
              /\ grid.cells[k].elevation = placed.before.cells[k].elevation
              /\ grid.cells[k].position = placed.before.cells[k].position
              /\ k \notin footprint_positions => grid.cells[k] = placed.before.cells[k]
              /\ k \in footprint_positions => grid.cells[k].terrain = last_offset_terrain(k)

\* apply_to_grid changed the terrain of one covered cell of elevation -1 and
\* skipped an offset whose destination holds no cell, next to an uncovered cell
C15_Witness ==
    /\ placed.call = "apply_to_grid"
    /\ \E k \in footprint_positions :
          /\ k \in DOMAIN placed.before.cells
          /\ placed.before.cells[k].elevation = -1
          /\ placed.before.cells[k].terrain # grid.cells[k].terrain
    /\ \E k \in footprint_positions : k \notin DOMAIN grid.cells
    /\ \E k \in DOMAIN grid.cells : k \notin footprint_positions

(***************************************************************************)
(* Definitions the properties of distance are stated with.                 *)
(***************************************************************************)
\* C16: distance(A, A) = 0 and distance(A, B) = distance(B, A).
C16_DistanceZeroAndSymmetric ==
    /\ Len(measured.results) >= 2 => measured.results[1] = measured.results[2]
    /\ Len(measured.results) >= 3 => measured.results[3] = 0

\* the three distances are computed for positions that differ in q, r and z
\* and are not mirror images of each other
C16_Witness ==
    /\ Len(measured.results) >= 3
    /\ measured.a.q # measured.b.q
    /\ measured.a.r # measured.b.r
    /\ measured.a.z < measured.b.z
    /\ measured.a.q + measured.b.q # 0
    /\ measured.results[1] > 0

\* |x|, written out
magnitude(x) == IF x >= 0 THEN x ELSE 0 - x

\* C17: distance(A, B) is (|dq| + |dr| + |dq + dr|) / 2 plus |A.z - B.z|,
\* distance((0,0,0), (1,1,2)) is 4, and HexGrid::distance returns the same.
C17_DistanceIsPlanarPlusVertical ==
    LET dq == measured.a.q - measured.b.q
        dr == measured.a.r - measured.b.r
        expected == ((magnitude(dq) + magnitude(dr) + magnitude(dq + dr)) \div 2)
                        + magnitude(measured.a.z - measured.b.z)
    IN  /\ Len(measured.results) >= 1 => measured.results[1] = expected
        /\ Len(measured.results) >= 4 => measured.results[4] = measured.results[1]
        /\ (/\ Len(measured.results) >= 1
            /\ measured.a = [q |-> 0, r |-> 0, z |-> 0]
            /\ measured.b = [q |-> 1, r |-> 1, z |-> 2]) => measured.results[1] = 4

\* both distances are computed for (0,0,0) and (1,1,2)
C17_Witness ==
    /\ measured.a = [q |-> 0, r |-> 0, z |-> 0]
    /\ measured.b = [q |-> 1, r |-> 1, z |-> 2]
    /\ Len(measured.results) = 4
    /\ measured.results[4] = 4

(***************************************************************************)
(* Definitions the properties of Combat are stated with.                   *)
(***************************************************************************)
\* the number of participants
n_participants == Len(combat.participants)

\* C18: next_turn is a round robin.  With n >= 1 participants a call advances
\* the index by one modulo n and returns the participant at the new index;
\* the first call after two participants joined returns the second one; the
\* index stays below n; n consecutive calls with no participant added in
\* between return every participant exactly once.  With no participants it
\* returns none and changes nothing.
C18_NextTurnRoundRobin ==
    /\ n_participants >= 1 => combat.current_turn < n_participants
    /\ (turn_log.call = "next_turn" /\ Len(turn_log.before.participants) >= 1) =>
          /\ combat.current_turn
                = (turn_log.before.current_turn + 1) % Len(turn_log.before.participants)
          /\ turn_log.returned.is_some
          /\ turn_log.returned.value.index = combat.current_turn
          /\ turn_log.returned.value.character
                = combat.participants[combat.current_turn + 1]
          /\ [i \in 1..n_participants |-> combat.participants[i].name]
                = [i \in 1..n_participants |-> turn_log.before.participants[i].name]
    /\ (turn_log.call = "next_turn" /\ turn_log.turns = 1 /\ n_participants = 2) =>
          turn_log.returned.value.character = combat.participants[2]
    /\ Len(turn_log.recent) = n_participants =>
          \A i \in 0..(n_participants - 1) :
              Cardinality({k \in 1..Len(turn_log.recent) : turn_log.recent[k] = i}) = 1
    /\ (turn_log.call = "next_turn" /\ turn_log.before.participants = << >>) =>
          /\ ~turn_log.returned.is_some
          /\ combat = turn_log.before

\* three participants, and the last three calls of next_turn, made after the
\* index had already wrapped around, returned each of them
C18_Witness ==
    /\ n_participants = 3
    /\ turn_log.call = "next_turn"
    /\ Len(turn_log.recent) = 3
    /\ turn_log.turns > 3
    /\ turn_log.recent[3] = 0
    /\ combat.current_turn = 0

(***************************************************************************)
(* Definitions the properties of WorldMap are stated with.                 *)
(***************************************************************************)
\* the position the step from the current state to the next one asked
\* instance i for
called(i, position) == world_log'[i].calls = Append(world_log[i].calls, position)

\* the two instances were built by with_seed with the same arguments and
\* have received the same calls in the same order
same_history(i, j) ==
    /\ world_log[i].seed = world_log[j].seed
    /\ world_log[i].chunk_size = world_log[j].chunk_size
    /\ world_log[i].calls = world_log[j].calls

produced_chunks ==
    UNION {{worlds[i].chunks[p] : p \in DOMAIN worlds[i].chunks} : i \in DOMAIN worlds}
    \cup {world_log[i].last : i \in {j \in DOMAIN world_log : world_log[j].calls # << >>}}

allowed_terrains(biome) ==
    CASE biome \in {"Forest", "Desert", "Tundra"} -> {"Plain", "Rough"}
      [] biome = "Mountain" -> {"Rough", "Wall"}
      [] biome = "Plains" -> {"Plain"}
      [] biome = "Ocean" -> {"Water"}
      [] OTHER -> {}

allowed_elevations(biome) ==
    CASE biome = "Mountain" -> 5..14
      [] biome = "Plains" -> 0..2
      [] biome = "Forest" -> 1..4
      [] biome = "Desert" -> 0..1
      [] biome = "Ocean" -> {-1}
      [] biome = "Tundra" -> 2..6
      [] OTHER -> {}

allowed_structures(biome, terrain) ==
    CASE biome = "Forest" /\ terrain = "Plain" -> {"Vegetation(Tree)", "Vegetation(Bush)"}
      [] biome = "Mountain" /\ terrain = "Rough" -> {"Landmark(Rock)"}
      [] biome = "Plains" /\ terrain = "Plain" -> {"Building(House)", "Landmark(Well)"}
      [] OTHER -> {}

\* the cells of a chunk's grid that stand on the hex (q, r) of position h
cells_on_hex(chunk, h) ==
    {chunk.grid.cells[k] : k \in {c \in DOMAIN chunk.grid.cells : c.q = h.q /\ c.r = h.r}}

generated_maps ==
    UNION {{gen_log[i].returned[k] : k \in {n \in 1..Len(gen_log[i].returned) :
                                              gen_log[i].returned[n].kind = "Some"}} :
           i \in DOMAIN gen_log}

\* C28: in every chunk produced by get_or_generate_chunk or generate_map, each
\* key of the structure map is the position of a cell stored in the chunk's
\* grid: grid.get_cell(key) is present.
C28_StructureKeysAreCellPositions ==
    \A chunk \in produced_chunks \cup generated_maps :
        \A key \in DOMAIN chunk.structures : has_cell(chunk.grid, key)

\* C29: for every chunk produced by get_or_generate_chunk at any
\* ChunkPosition, a negative x or y included, every cell stored in the chunk's
\* grid passes that grid's is_in_bounds.
C29_ChunkCellsAreInBounds ==
    \A chunk \in produced_chunks :
        \A k \in DOMAIN chunk.grid.cells : is_in_bounds(chunk.grid, k)

\* C7: two MapGenerators built with the same seed that have received the
\* same generate_map calls in the same order returned identical chunks
\* (cells' terrain and elevation, structure map), whatever order their
\* distribution tables iterate in.
C7_SameSeedSameMaps ==
    \A i, j \in Instances :
        (gen_log[i].seed = gen_log[j].seed /\ gen_log[i].calls = gen_log[j].calls)
            => gen_log[i].returned = gen_log[j].returned

=============================================================================
